---- MODULE Spec2Model ----
(***************************************************************************)
(* Model of the CALC repository's two source files:                        *)
(*   src/meta/management/commands/ultratest.py  (the ultratest command)    *)
(*   src/data_capture/admin.py                  (price-list and user admin)*)
(* Three specifications share the module: SpecCLI (one run of ultratest),  *)
(* SpecAdmin (bulk actions on submitted price lists) and SpecUsers (user   *)
(* creation and change forms).                                             *)
(***************************************************************************)
EXTENDS Integers, Sequences, FiniteSets, TLC

VARIABLES
    \* ---- ultratest.py ----
    IS_RUNNING_IN_DOCKER, \* docker_django_management.IS_RUNNING_IN_DOCKER
    testtype_names,       \* the command's positional arguments
    verbosity,            \* the command's verbosity option
    coverage_file,        \* the content of coverage.xml on disk
    pc,                   \* position of the command in its body
    to_run,               \* list of test types to run
    report_coverage,
    coverage_before,
    coverage_after,
    idx,                  \* index into to_run of the loop at line 175
    failures,
    failure_outputs,
    exit_code,
    started,              \* entries whose cmd was handed to subprocess.call, in order
    printed,              \* what the command wrote to its output
    raised,               \* exception that left the command, or "none"
    interrupted,          \* a KeyboardInterrupt was delivered
    exit_status,          \* exit status of the process, None while running
    results,              \* return codes subprocess.call has delivered, in order
    coverage_reads,       \* number of calls of get_coverage
    \* ---- admin.py, price lists ----
    status,               \* SubmittedPriceList.status of each price list
    emails_sent,          \* notifications sent by the last action
    flash,                \* message added by the last action
    last_action,          \* the last action and its queryset
    prev_status,          \* status before the last action
    \* ---- admin.py, users ----
    users,                \* User records: pk -> [email, username]
    form,                 \* the form of the request being served, or None
    prev_users,           \* users when the request being served came in
    gen_call              \* a call of generate_username and its outcome, or None

cliVars == <<IS_RUNNING_IN_DOCKER, testtype_names, verbosity, coverage_file,
             pc, to_run, report_coverage, coverage_before, coverage_after,
             idx, failures, failure_outputs, exit_code, started, printed,
             raised, interrupted, exit_status, results, coverage_reads>>
adminVars == <<status, emails_sent, flash, last_action, prev_status>>
userVars == <<users, form, prev_users, gen_call>>
vars == <<cliVars, adminVars, userVars>>

(***************************************************************************)
(* Bounds of the model.                                                    *)
(***************************************************************************)
MaxArgs == 2          \* longest argument list of ultratest
NumPriceLists == 3    \* number of submitted price lists
MaxUsers == 2         \* most User records
MaxAttemptsBound == 3 \* largest max_attempts handed to generate_username

(***************************************************************************)
(* Python helpers.  None is the empty tuple and a value v is <<v>>.        *)
(***************************************************************************)
None == <<>>
Some(v) == <<v>>
Truthy(c) == c # None /\ c[1] # 0

RECURSIVE SeqToSet(_)
SeqToSet(s) == IF s = <<>> THEN {} ELSE {Head(s)} \cup SeqToSet(Tail(s))

(***************************************************************************)
(* ultratest.py                                                            *)
(***************************************************************************)
TESTTYPES_TO_REPORT_COVERAGE_ON == {"py.test"}

ESLINT_CMD ==
    IF IS_RUNNING_IN_DOCKER
    THEN "eslint --rule \"import/no-unresolved: off\" --max-warnings 0 ."
    ELSE "npm run failable-eslint"

TESTTYPES ==
    << [name |-> "flake8", cmd |-> "flake8 --exclude=node_modules,migrations ."],
       [name |-> "eslint", cmd |-> ESLINT_CMD],
       [name |-> "bandit", cmd |-> "bandit -r ."],
       [name |-> "py.test", cmd |-> "py.test --cov-report xml --cov-report term --cov"],
       [name |-> "jest", cmd |-> "npm test"] >>

\* the names an argument is drawn from: the five test types and one other
ArgNames == {"flake8", "eslint", "bandit", "py.test", "jest", "mocha"}
Verbosities == 0..3
ReturnCodes == {0, 1}
BranchRates == {0, 50, 100}     \* branch-rate, in percent

\* states of coverage.xml
CoverageFiles ==
    { [kind |-> k, branch_rate |-> 0] :
        k \in {"missing", "unparsable", "no_package", "no_branch_rate", "bad_float"} }
    \cup { [kind |-> "ok", branch_rate |-> r] : r \in BranchRates }

\* get_coverage(): every exception of the parse is turned into None
get_coverage(file) ==
    IF file.kind \in {"missing", "unparsable"} THEN None   \* etree.parse raises
    ELSE IF file.kind = "no_package" THEN None             \* None.attrib
    ELSE IF file.kind = "no_branch_rate" THEN None         \* KeyError
    ELSE IF file.kind = "bad_float" THEN None              \* ValueError
    ELSE Some(file.branch_rate)

\* get_testtype_names(testtypes): the names, to be joined
get_testtype_names(testtypes) ==
    LET tt == IF testtypes = <<>> THEN TESTTYPES ELSE testtypes
    IN  [i \in 1..Len(tt) |-> tt[i].name]

\* a get_testtype that falls back to the first test type instead of raising
get_testtype_Mut(name) ==
    IF \E i \in 1..Len(TESTTYPES) : TESTTYPES[i].name = name
    THEN Some(TESTTYPES[CHOOSE i \in 1..Len(TESTTYPES) : TESTTYPES[i].name = name])
    ELSE Some(TESTTYPES[1])

\* get_testtype(name): the entry, or None where the code raises CommandError
get_testtype(name) ==
    IF \E i \in 1..Len(TESTTYPES) : TESTTYPES[i].name = name
    THEN Some(TESTTYPES[CHOOSE i \in 1..Len(TESTTYPES) : TESTTYPES[i].name = name])
    ELSE None

Line(m, ns, xs) == [msg |-> m, names |-> ns, nums |-> xs]

\* the message of the CommandError of get_testtype
CommandErrorMsg(name) ==
    Line("is not a valid test type. Please choose from",
         <<name>> \o get_testtype_names(<<>>), <<>>)

\* echo(msg, v_level) of the command
echo(out, line, v_level) ==
    IF verbosity < v_level THEN out ELSE Append(out, line)

is_verbose == verbosity > 1

\* first index of the argument list that names no test type, 0 if none
FirstUnknown(names) ==
    IF \E i \in 1..Len(names) : get_testtype(names[i]) = None
    THEN CHOOSE i \in 1..Len(names) :
            /\ get_testtype(names[i]) = None
            /\ \A j \in 1..(i-1) : get_testtype(names[j]) # None
    ELSE 0

\* a to_run that keeps the order of TESTTYPES instead of the arguments' order
ToRun_Mut(names) ==
    IF names # <<>>
    THEN SelectSeq(TESTTYPES, LAMBDA t : \E i \in 1..Len(names) : names[i] = t.name)
    ELSE TESTTYPES

\* lines 150-153: to_run, for an argument list of known names
ToRun(names) ==
    IF names # <<>>
    THEN [i \in 1..Len(names) |-> get_testtype(names[i])[1]]
    ELSE TESTTYPES

ArgLists == UNION { [1..n -> ArgNames] : n \in 0..MaxArgs }

InitCLI ==
    /\ IS_RUNNING_IN_DOCKER \in BOOLEAN
    /\ testtype_names \in ArgLists
    /\ verbosity \in Verbosities
    /\ coverage_file \in CoverageFiles
    /\ pc = "start"
    /\ to_run = <<>>
    /\ report_coverage = FALSE
    /\ coverage_before = None
    /\ coverage_after = None
    /\ idx = 1
    /\ failures = <<>>
    /\ failure_outputs = <<>>
    /\ exit_code = 0
    /\ started = <<>>
    /\ printed = <<>>
    /\ raised = "none"
    /\ interrupted = FALSE
    /\ exit_status = None
    /\ results = <<>>
    /\ coverage_reads = 0
    /\ status = <<>>
    /\ emails_sent = <<>>
    /\ flash = None
    /\ last_action = None
    /\ prev_status = <<>>
    /\ users = <<>>
    /\ form = None
    /\ prev_users = <<>>
    /\ gen_call = None

\* lines 148-172: logo, argument lookup, coverage of the last run
Start ==
    /\ pc = "start"
    /\ LET bad == FirstUnknown(testtype_names)
           logo == Append(printed, Line("ASCII_ART_LOGO", <<>>, <<>>))
       IN
       IF bad # 0
       THEN \* get_testtype raises CommandError out of the command
            /\ raised' = "CommandError"
            /\ printed' = Append(logo, CommandErrorMsg(testtype_names[bad]))
            /\ exit_status' = Some(1)
            /\ pc' = "done"
            /\ UNCHANGED <<to_run, report_coverage, coverage_before, coverage_reads>>
       ELSE LET tr == ToRun(testtype_names)
                rc == \E i \in 1..Len(tr) :
                        tr[i].name \in TESTTYPES_TO_REPORT_COVERAGE_ON
            IN  /\ to_run' = tr
                /\ printed' = IF tr = TESTTYPES
                              THEN echo(logo, Line("Running ALL THE TESTS", <<>>, <<>>), 1)
                              ELSE echo(logo, Line("Running", get_testtype_names(tr), <<>>), 1)
                /\ report_coverage' = rc
                /\ coverage_before' = IF rc THEN get_coverage(coverage_file)
                                      ELSE coverage_before
                /\ coverage_reads' = IF rc THEN coverage_reads + 1
                                     ELSE coverage_reads
                /\ pc' = "loop"
                /\ UNCHANGED <<raised, exit_status>>
    /\ UNCHANGED <<IS_RUNNING_IN_DOCKER, testtype_names, verbosity, coverage_file,
                   coverage_after, idx, failures, failure_outputs, exit_code,
                   started, interrupted, results>>
    /\ UNCHANGED <<adminVars, userVars>>

\* what the temporary file holds after the command of an entry has run
Output(entry) == "output of " \o entry.cmd

\* lines 175-184: the next entry of to_run is handed to subprocess.call
RunTool ==
    /\ pc = "loop"
    /\ idx <= Len(to_run)
    /\ LET entry == to_run[idx] IN
        /\ printed' = echo(echo(printed, Line("->", <<entry.name>>, <<>>), 1),
                           Line("Running", <<entry.cmd>>, <<>>), 2)
        /\ started' = Append(started, entry)
    /\ pc' = "call"
    /\ UNCHANGED <<IS_RUNNING_IN_DOCKER, testtype_names, verbosity, coverage_file,
                   to_run, report_coverage, coverage_before, coverage_after, idx,
                   failures, failure_outputs, exit_code, raised, interrupted,
                   exit_status, results, coverage_reads>>
    /\ UNCHANGED <<adminVars, userVars>>

\* the states coverage.xml can be in once the command of an entry has run
\* (py.test --cov-report xml rewrites the file)
FileAfter(entry) ==
    IF entry.name = "py.test" THEN CoverageFiles ELSE {coverage_file}

\* lines 182-196: subprocess.call returns result
ToolReturn(result) ==
    /\ pc = "call"
    /\ LET entry == to_run[idx] IN
        /\ failures' = IF result # 0 THEN Append(failures, entry.name) ELSE failures
        /\ failure_outputs' =
              IF result # 0 /\ ~is_verbose
              THEN Append(failure_outputs, Output(entry))
              ELSE failure_outputs
        /\ printed' =
              IF ~is_verbose
              THEN echo(printed,
                        Line(IF result = 0 THEN "OK" ELSE "FAIL", <<>>, <<>>), 1)
              ELSE printed
        /\ coverage_file' \in FileAfter(entry)
    /\ results' = Append(results, result)
    /\ idx' = idx + 1
    /\ pc' = "loop"
    /\ UNCHANGED <<IS_RUNNING_IN_DOCKER, testtype_names, verbosity, to_run,
                   report_coverage, coverage_before, coverage_after, exit_code,
                   started, raised, interrupted, exit_status, coverage_reads>>
    /\ UNCHANGED <<adminVars, userVars>>

\* line 175: the for loop is exhausted and the try block is left
LoopEnd ==
    /\ pc = "loop"
    /\ idx > Len(to_run)
    /\ pc' = "report"
    /\ UNCHANGED <<IS_RUNNING_IN_DOCKER, testtype_names, verbosity, coverage_file,
                   to_run, report_coverage, coverage_before, coverage_after, idx,
                   failures, failure_outputs, exit_code, started, printed, raised,
                   interrupted, exit_status, results, coverage_reads>>
    /\ UNCHANGED <<adminVars, userVars>>

\* an except clause that forgets to set exit_code
Interrupt_Mut ==
    /\ pc \in {"loop", "call"}
    /\ interrupted' = TRUE
    /\ printed' = echo(printed, Line("Aborting test run.", <<>>, <<>>), 0)
    /\ exit_code' = exit_code
    /\ coverage_file' \in (IF pc = "call" THEN FileAfter(to_run[idx])
                           ELSE {coverage_file})
    /\ pc' = "report"
    /\ UNCHANGED <<IS_RUNNING_IN_DOCKER, testtype_names, verbosity, to_run,
                   report_coverage, coverage_before, coverage_after, idx,
                   failures, failure_outputs, started, raised, exit_status,
                   results, coverage_reads>>
    /\ UNCHANGED <<adminVars, userVars>>

\* lines 197-199: KeyboardInterrupt inside the try block
Interrupt ==
    /\ pc \in {"loop", "call"}
    /\ interrupted' = TRUE
    /\ printed' = echo(printed, Line("Aborting test run.", <<>>, <<>>), 0)
    /\ exit_code' = 1
    /\ coverage_file' \in (IF pc = "call" THEN FileAfter(to_run[idx])
                           ELSE {coverage_file})
    /\ pc' = "report"
    /\ UNCHANGED <<IS_RUNNING_IN_DOCKER, testtype_names, verbosity, to_run,
                   report_coverage, coverage_before, coverage_after, idx,
                   failures, failure_outputs, started, raised, exit_status,
                   results, coverage_reads>>
    /\ UNCHANGED <<adminVars, userVars>>

\* lines 201-206: zip(failures, failure_outputs), from pair i on
RECURSIVE DumpOutputs(_, _, _, _)
DumpOutputs(out, fs, os, i) ==
    IF i > Len(fs) \/ i > Len(os) THEN out
    ELSE DumpOutputs(
            echo(Append(echo(echo(out, Line("------", <<>>, <<>>), 0),
                             Line("Output from", <<fs[i]>>, <<>>), 0),
                        Line("stdout.buffer.write", <<os[i]>>, <<>>)),
                 Line("\n", <<>>, <<>>), 0),
            fs, os, i + 1)

\* lines 201-210: outputs of the failed commands, names of the failures
Report ==
    /\ pc = "report"
    /\ LET dumped == IF failure_outputs # <<>>
                     THEN DumpOutputs(printed, failures, failure_outputs, 1)
                     ELSE printed
       IN  IF Len(failures) > 0
           THEN /\ printed' = echo(dumped, Line("Failing tests", failures, <<>>), 0)
                /\ exit_code' = 1
           ELSE /\ printed' = dumped
                /\ exit_code' = exit_code
    /\ pc' = "coverage"
    /\ UNCHANGED <<IS_RUNNING_IN_DOCKER, testtype_names, verbosity, coverage_file,
                   to_run, report_coverage, coverage_before, coverage_after, idx,
                   failures, failure_outputs, started, raised, interrupted,
                   exit_status, results, coverage_reads>>
    /\ UNCHANGED <<adminVars, userVars>>

\* lines 212-225: coverage after the run, its difference, sys.exit
Coverage ==
    /\ pc = "coverage"
    /\ IF report_coverage
       THEN LET after == get_coverage(coverage_file) IN
            /\ coverage_after' = after
            /\ coverage_reads' = coverage_reads + 1
            /\ IF after = None
               THEN \* '{:.2%}'.format(None) raises TypeError
                    /\ raised' = "TypeError"
                    /\ exit_status' = Some(1)
                    /\ printed' = printed
               ELSE /\ raised' = raised
                    /\ exit_status' = Some(exit_code)
                    /\ LET cov == echo(printed, Line("Coverage", <<>>, after), 1) IN
                       IF Truthy(coverage_before)
                       THEN LET diff == after[1] - coverage_before[1] IN
                            printed' =
                               IF diff < 0
                               THEN echo(cov, Line("from last run", <<>>, <<diff>>), 1)
                               ELSE IF diff > 0
                               THEN echo(cov, Line("+from last run", <<>>, <<diff>>), 1)
                               ELSE echo(cov, Line("same as last run", <<>>, <<>>), 1)
                       ELSE printed' = cov
       ELSE /\ exit_status' = Some(exit_code)
            /\ UNCHANGED <<coverage_after, raised, printed, coverage_reads>>
    /\ pc' = "done"
    /\ UNCHANGED <<IS_RUNNING_IN_DOCKER, testtype_names, verbosity, coverage_file,
                   to_run, report_coverage, coverage_before, idx, failures,
                   failure_outputs, exit_code, started, interrupted, results>>
    /\ UNCHANGED <<adminVars, userVars>>

NextCLI ==
    \/ Start
    \/ RunTool
    \/ \E result \in ReturnCodes : ToolReturn(result)
    \/ LoopEnd
    \/ Interrupt
    \/ Report
    \/ Coverage

SpecCLI == InitCLI /\ [][NextCLI]_vars

(***************************************************************************)
(* admin.py: submitted price lists                                         *)
(***************************************************************************)
PriceLists == 1..NumPriceLists
\* SubmittedPriceListRow records; row r belongs to price list RowPriceList(r),
\* so that price list 1 has two rows
Rows == 1..(NumPriceLists + 1)
RowPriceList(r) == ((r - 1) % NumPriceLists) + 1

\* SubmittedPriceList.STATUS_*
STATUS_NEW == "NEW"
STATUS_APPROVED == "APPROVED"
STATUS_REJECTED == "REJECTED"
STATUS_UNAPPROVED == "UNAPPROVED"

\* SubmittedPriceList.approve / unapprove / reject (data_capture/models.py)
price_list_approve(st, p) == [st EXCEPT ![p] = STATUS_APPROVED]
price_list_unapprove(st, p) == [st EXCEPT ![p] = STATUS_UNAPPROVED]
price_list_reject(st, p) == [st EXCEPT ![p] = STATUS_REJECTED]

\* SubmittedPriceListRowInline.fields / readonly_fields
Inline_fields ==
    <<"labor_category", "education_level", "min_years_experience",
      "base_year_rate", "sin", "is_muted">>
Inline_readonly_fields == <<>>

\* An inline that is read-only unless the price list is approved
Inline_get_readonly_fields_Mut(obj) ==
    IF obj # None /\ status[obj[1]] # STATUS_APPROVED
    THEN Inline_fields
    ELSE Inline_readonly_fields

\* SubmittedPriceListRowInline.get_readonly_fields(request, obj)
Inline_get_readonly_fields(obj) ==
    IF obj # None /\ status[obj[1]] = STATUS_APPROVED
    THEN Inline_fields
    ELSE Inline_readonly_fields

\* BaseSubmittedPriceListAdmin.fields / readonly_fields
Admin_fields ==
    <<"contract_number", "vendor_name", "is_small_business", "schedule_title",
      "contractor_site", "contract_start", "contract_end", "submitter",
      "created_at", "updated_at", "current_status", "status_changed_at",
      "status_changed_by">>
Admin_readonly_fields ==
    <<"schedule_title", "created_at", "updated_at", "current_status",
      "submitter", "status_changed_at", "status_changed_by">>

\* BaseSubmittedPriceListAdmin.get_readonly_fields(request, obj)
Admin_get_readonly_fields(obj) ==
    IF obj # None /\ status[obj[1]] = STATUS_APPROVED
    THEN Admin_fields
    ELSE Admin_readonly_fields

\* BaseSubmittedPriceListAdmin.current_status: which of the two notes is shown
current_status(instance) ==
    IF status[instance] = STATUS_APPROVED
    THEN "approved, unapprove it to edit"
    ELSE "not currently approved"

\* get_queryset of the four price-list admins and of the row admin
ApprovedPriceListAdmin_get_queryset ==
    {p \in PriceLists : status[p] = STATUS_APPROVED}
NewPriceListAdmin_get_queryset ==
    {p \in PriceLists : status[p] = STATUS_NEW}
RejectedPriceListAdmin_get_queryset ==
    {p \in PriceLists : status[p] = STATUS_REJECTED}

\* a copy of the rejected admin's filter left in the unapproved admin
UnapprovedPriceListAdmin_get_queryset_Mut ==
    {p \in PriceLists : status[p] = STATUS_REJECTED}

UnapprovedPriceListAdmin_get_queryset ==
    {p \in PriceLists : status[p] = STATUS_UNAPPROVED}
SubmittedPriceListRowAdmin_get_queryset ==
    {r \in Rows : status[RowPriceList(r)] # STATUS_APPROVED}

\* the elements of a queryset in the order of their primary keys
RECURSIVE InOrder(_)
InOrder(S) ==
    IF S = {} THEN <<>>
    ELSE LET m == CHOOSE x \in S : \A y \in S : x <= y
         IN  <<m>> \o InOrder(S \ {m})

\* the loop of an action: the model method, then the e-mail, per price list
RECURSIVE ForEach(_, _, _, _)
ForEach(todo, st, mails, kind) ==
    IF todo = <<>> THEN [st |-> st, mails |-> mails]
    ELSE LET p == Head(todo)
             st2 == IF kind = "approved" THEN price_list_approve(st, p)
                    ELSE IF kind = "unapproved" THEN price_list_unapprove(st, p)
                    ELSE price_list_reject(st, p)
         IN  ForEach(Tail(todo), st2, Append(mails, [kind |-> kind, to |-> p]), kind)

\* an approve that forgets to exclude the approved price lists
approve_unapproved_Mut(queryset) == queryset

\* line 172: queryset.exclude(status=STATUS_APPROVED)
approve_unapproved(queryset) ==
    {p \in queryset : status[p] # STATUS_APPROVED}
\* line 194: queryset.filter(status=STATUS_APPROVED)
unapprove_approved(queryset) ==
    {p \in queryset : status[p] = STATUS_APPROVED}
\* line 215: queryset.filter(status=STATUS_NEW)
reject_new_pricelists(queryset) ==
    {p \in queryset : status[p] = STATUS_NEW}

InitAdmin ==
    /\ status = [p \in PriceLists |-> STATUS_NEW]
    /\ emails_sent = <<>>
    /\ flash = None
    /\ last_action = None
    /\ prev_status = [p \in PriceLists |-> STATUS_NEW]
    /\ IS_RUNNING_IN_DOCKER = FALSE
    /\ testtype_names = <<>>
    /\ verbosity = 1
    /\ coverage_file = [kind |-> "missing", branch_rate |-> 0]
    /\ pc = "idle"
    /\ to_run = <<>>
    /\ report_coverage = FALSE
    /\ coverage_before = None
    /\ coverage_after = None
    /\ idx = 1
    /\ failures = <<>>
    /\ failure_outputs = <<>>
    /\ exit_code = 0
    /\ started = <<>>
    /\ printed = <<>>
    /\ raised = "none"
    /\ interrupted = FALSE
    /\ exit_status = None
    /\ results = <<>>
    /\ coverage_reads = 0
    /\ users = <<>>
    /\ form = None
    /\ prev_users = <<>>
    /\ gen_call = None

\* approve(modeladmin, request, queryset)
approve(queryset) ==
    LET unapproved == approve_unapproved(queryset)
        count == Cardinality(unapproved)
        done == ForEach(InOrder(unapproved), status, <<>>, "approved")
    IN  /\ status' = done.st
        /\ emails_sent' = done.mails
        /\ flash' = Some([msg |-> "price list(s) have been approved and added to CALC.",
                          count |-> count])
        /\ last_action' = Some([name |-> "approve", queryset |-> queryset])
        /\ prev_status' = status
        /\ UNCHANGED <<cliVars, userVars>>

\* unapprove(modeladmin, request, queryset)
unapprove(queryset) ==
    LET approved == unapprove_approved(queryset)
        count == Cardinality(approved)
        done == ForEach(InOrder(approved), status, <<>>, "unapproved")
    IN  /\ status' = done.st
        /\ emails_sent' = done.mails
        /\ flash' = Some([msg |-> "price list(s) have been unapproved and removed from CALC.",
                          count |-> count])
        /\ last_action' = Some([name |-> "unapprove", queryset |-> queryset])
        /\ prev_status' = status
        /\ UNCHANGED <<cliVars, userVars>>

\* reject(modeladmin, request, queryset)
reject(queryset) ==
    LET new_pricelists == reject_new_pricelists(queryset)
        count == Cardinality(new_pricelists)
        done == ForEach(InOrder(new_pricelists), status, <<>>, "rejected")
    IN  /\ status' = done.st
        /\ emails_sent' = done.mails
        /\ flash' = Some([msg |-> "price list(s) have been rejected.",
                          count |-> count])
        /\ last_action' = Some([name |-> "reject", queryset |-> queryset])
        /\ prev_status' = status
        /\ UNCHANGED <<cliVars, userVars>>

NextAdmin ==
    \/ \E queryset \in SUBSET PriceLists : approve(queryset)
    \/ \E queryset \in SUBSET PriceLists : unapprove(queryset)
    \/ \E queryset \in SUBSET PriceLists : reject(queryset)

SpecAdmin == InitAdmin /\ [][NextAdmin]_vars

(***************************************************************************)
(* admin.py: users.  A string is the sequence of its characters.           *)
(***************************************************************************)
\* e-mail addresses typed into the forms
Emails ==
    { <<"a", "b", "@", "x">>,
      <<"A", ".", "B", "@", "y">>,
      <<"a", "b", "1", "@", "x">>,
      <<"a", "-", "-", "b", "@", "x">>,
      <<"a", ".", "b", "c", "d", "e", "f", "g", "h", "i", "j", "k", "l", "m", "n", "o", "p", "@", "x">> }

\* str.lower, on the characters of Emails
Lower(c) == IF c = "A" THEN "a" ELSE IF c = "B" THEN "b" ELSE c

\* the characters of Emails that match \w, and those that match [-\s]
WordChars ==
    {"a", "b", "c", "d", "e", "f", "g", "h", "i", "j", "k", "l", "m", "n", "o",
     "p", "A", "B", "0", "1", "2", "3", "4", "5", "6", "7", "8", "9", "_"}
DashChars == {"-", " "}

\* re.sub(r'[-\s]+', '-', value)
RECURSIVE CollapseDashes(_)
CollapseDashes(v) ==
    IF v = <<>> THEN <<>>
    ELSE IF Head(v) \in DashChars
         THEN IF Len(v) > 1 /\ v[2] \in DashChars
              THEN CollapseDashes(Tail(v))
              ELSE <<"-">> \o CollapseDashes(Tail(v))
         ELSE <<Head(v)>> \o CollapseDashes(Tail(v))

\* django.utils.text.slugify: drop what is neither \w, \s nor '-',
\* lower-case, collapse runs of dashes and spaces
slugify(value) ==
    LET kept == SelectSeq(value, LAMBDA c : c \in WordChars \cup DashChars)
        lowered == [i \in 1..Len(kept) |-> Lower(kept[i])]
    IN  CollapseDashes(lowered)

\* email.split('@')[0]
RECURSIVE BeforeAt(_)
BeforeAt(email) ==
    IF email = <<>> \/ Head(email) = "@" THEN <<>>
    ELSE <<Head(email)>> \o BeforeAt(Tail(email))

\* value[:n]
Slice(value, n) == SubSeq(value, 1, IF Len(value) < n THEN Len(value) ELSE n)

\* '{}'.format(i) for i >= 0
DigitChars == <<"0", "1", "2", "3", "4", "5", "6", "7", "8", "9">>
RECURSIVE Str(_)
Str(i) ==
    IF i < 10 THEN <<DigitChars[i + 1]>>
    ELSE Str(i \div 10) \o <<DigitChars[(i % 10) + 1]>>

BasenameLen == 15
DefaultMaxAttempts == 100

\* User.objects.filter(username=username).exists()
UsernameExists(username) ==
    \E k \in 1..Len(users) : users[k].username = username

\* the loop of generate_username from attempt i on: the username found, or
\* None where the code raises Exception
RECURSIVE Attempt(_, _, _)
Attempt(basename, i, max_attempts) ==
    IF i >= max_attempts THEN None
    ELSE LET username == IF i = 0 THEN basename ELSE basename \o Str(i)
         IN  IF ~UsernameExists(username) THEN Some(username)
             ELSE Attempt(basename, i + 1, max_attempts)

\* a loop that numbers every username, range(1, max_attempts)
generate_username_Mut(email, max_attempts) ==
    Attempt(Slice(slugify(BeforeAt(email)), BasenameLen), 1, max_attempts)

\* CustomUserCreationForm.generate_username(email, max_attempts)
generate_username(email, max_attempts) ==
    Attempt(Slice(slugify(BeforeAt(email)), BasenameLen), 0, max_attempts)

\* a clean_email that does not exclude the edited user
clean_email_Mut(email, instance) ==
    LET qs == {k \in 1..Len(users) : users[k].email = email}
    IN  IF Cardinality(qs) # 0 THEN None ELSE Some(email)

\* UniqueEmailFormMixin.clean_email: the cleaned e-mail, or None where the
\* code raises ValidationError; instance is the pk of the form's instance,
\* None for the unsaved instance of the creation form
clean_email(email, instance) ==
    LET qs == {k \in 1..Len(users) : users[k].email = email}
        excl == {k \in qs : Some(k) # instance}
    IN  IF Cardinality(excl) # 0 THEN None ELSE Some(email)

\* users present before the admin is used: none, or one created elsewhere
InitialUsers ==
    { <<>>,
      << [email |-> <<"r", "@", "x">>, username |-> <<"a", "b", "1">>] >> }

InitUsers ==
    /\ users \in InitialUsers
    /\ form = None
    /\ prev_users = users
    /\ gen_call = None
    /\ IS_RUNNING_IN_DOCKER = FALSE
    /\ testtype_names = <<>>
    /\ verbosity = 1
    /\ coverage_file = [kind |-> "missing", branch_rate |-> 0]
    /\ pc = "idle"
    /\ to_run = <<>>
    /\ report_coverage = FALSE
    /\ coverage_before = None
    /\ coverage_after = None
    /\ idx = 1
    /\ failures = <<>>
    /\ failure_outputs = <<>>
    /\ exit_code = 0
    /\ started = <<>>
    /\ printed = <<>>
    /\ raised = "none"
    /\ interrupted = FALSE
    /\ exit_status = None
    /\ results = <<>>
    /\ coverage_reads = 0
    /\ status = <<>>
    /\ emails_sent = <<>>
    /\ flash = None
    /\ last_action = None
    /\ prev_status = <<>>

\* a request is served at a time: nothing is in flight
Idle == form = None /\ gen_call = None

Form(kind, instance, email, state, errors, username) ==
    [kind |-> kind, instance |-> instance, email |-> email, state |-> state,
     errors |-> errors, username |-> username]

\* the add form is bound to the posted e-mail (CustomUserAdmin.add_form)
SubmitAdd(email) ==
    /\ Idle
    /\ Len(users) < MaxUsers
    /\ form' = Some(Form("add", None, email, "bound", {}, None))
    /\ prev_users' = users
    /\ UNCHANGED <<users, gen_call>>
    /\ UNCHANGED <<cliVars, adminVars>>

\* the change form of user pk is bound to the posted e-mail
\* (CustomUserAdmin.form); its other fields are sent back as they were
SubmitChange(pk, email) ==
    /\ Idle
    /\ pk \in 1..Len(users)
    /\ form' = Some(Form("change", Some(pk), email, "bound", {}, None))
    /\ prev_users' = users
    /\ UNCHANGED <<users, gen_call>>
    /\ UNCHANGED <<cliVars, adminVars>>

\* is_valid(): clean_email, then CustomUserCreationForm.clean for the add form
Validate ==
    /\ form # None
    /\ form[1].state = "bound"
    /\ LET f == form[1]
           cleaned == clean_email(f.email, f.instance)
           username == IF cleaned # None /\ f.kind = "add"
                       THEN generate_username(cleaned[1], DefaultMaxAttempts)
                       ELSE None
       IN  form' =
             IF cleaned = None
             THEN Some(Form(f.kind, f.instance, f.email, "invalid", {"email"}, None))
             ELSE IF f.kind = "add" /\ username = None
             THEN Some(Form(f.kind, f.instance, f.email, "raised", {}, None))
             ELSE Some(Form(f.kind, f.instance, cleaned[1], "valid", {}, username))
    /\ UNCHANGED <<users, prev_users, gen_call>>
    /\ UNCHANGED <<cliVars, adminVars>>

\* save() of a valid form: CustomUserCreationForm.save sets the username
Save ==
    /\ form # None
    /\ form[1].state = "valid"
    /\ LET f == form[1] IN
        /\ users' = IF f.kind = "add"
                    THEN Append(users, [email |-> f.email, username |-> f.username[1]])
                    ELSE [users EXCEPT ![f.instance[1]].email = f.email]
        /\ form' = Some(Form(f.kind, f.instance, f.email, "saved", {}, f.username))
    /\ UNCHANGED <<prev_users, gen_call>>
    /\ UNCHANGED <<cliVars, adminVars>>

\* a call generate_username(email, max_attempts) on the current users
GenerateUsername(email, max_attempts) ==
    /\ Idle
    /\ gen_call' = Some([email |-> email, max_attempts |-> max_attempts,
                         result |-> generate_username(email, max_attempts)])
    /\ prev_users' = users
    /\ UNCHANGED <<users, form>>
    /\ UNCHANGED <<cliVars, adminVars>>

\* the response is sent and the request's form is dropped
Respond ==
    /\ \/ form # None /\ form[1].state \in {"invalid", "raised", "saved"}
       \/ gen_call # None
    /\ form' = None
    /\ gen_call' = None
    /\ prev_users' = users
    /\ UNCHANGED users
    /\ UNCHANGED <<cliVars, adminVars>>

NextUsers ==
    \/ \E email \in Emails : SubmitAdd(email)
    \/ \E pk \in 1..MaxUsers, email \in Emails : SubmitChange(pk, email)
    \/ Validate
    \/ Save
    \/ \E email \in Emails, max_attempts \in 1..MaxAttemptsBound :
          GenerateUsername(email, max_attempts)
    \/ Respond

SpecUsers == InitUsers /\ [][NextUsers]_vars

(***************************************************************************)
(* Properties of the ultratest command.                                    *)
(***************************************************************************)
\* the five test types of the command line, in their fixed order
KnownNames == <<"flake8", "eslint", "bandit", "py.test", "jest">>
ValidArgs ==
    \A i \in 1..Len(testtype_names) : testtype_names[i] \in SeqToSet(KnownNames)
Requested == IF testtype_names = <<>> THEN KnownNames ELSE testtype_names
StartedNames == [i \in 1..Len(started) |-> started[i].name]
AnyFailed == \E i \in 1..Len(results) : results[i] # 0
ExpectedExit == Some(IF AnyFailed \/ interrupted THEN 1 ELSE 0)

\* names of the tools that returned non-zero, in the order they ran
RECURSIVE FailedInOrder(_)
FailedInOrder(n) ==
    IF n = 0 THEN <<>>
    ELSE IF results[n] # 0
         THEN Append(FailedInOrder(n - 1), started[n].name)
         ELSE FailedInOrder(n - 1)

\* C1: with valid test-type names the process ends with exit status 1 if a
\* subprocess returned non-zero or the run was interrupted, and 0 otherwise
C1_ExitCode ==
    (pc = "done" /\ ValidArgs) => exit_status = ExpectedExit

\* C2: an unknown name anywhere in the argument list makes the command fail
\* with an error that names the first such argument and lists the five valid
\* choices; no subprocess is started and coverage.xml is not read
C2_UnknownNameFails ==
    (~ValidArgs /\ pc # "start") =>
        /\ pc = "done"
        /\ raised = "CommandError"
        /\ exit_status # Some(0)
        /\ started = <<>>
        /\ results = <<>>
        /\ coverage_reads = 0
        /\ \E i \in 1..Len(testtype_names) :
              /\ testtype_names[i] \notin SeqToSet(KnownNames)
              /\ \A j \in 1..(i-1) : testtype_names[j] \in SeqToSet(KnownNames)
              /\ printed[Len(printed)].names = <<testtype_names[i]>> \o KnownNames

C2_Witness ==
    /\ pc = "done"
    /\ raised = "CommandError"
    /\ testtype_names = <<"py.test", "mocha">>

\* at most one subprocess is outstanding, the tools started are a prefix of
\* the requested sequence, and the failures are the failed tools in run order
C3_Sequential ==
    ValidArgs =>
        /\ Len(started) <= Len(Requested)
        /\ StartedNames = SubSeq(Requested, 1, Len(started))
        /\ Len(results) <= Len(started)
        /\ Len(started) - Len(results) <= 1
        /\ (pc = "call") => Len(started) = Len(results) + 1
        /\ (~interrupted /\ pc # "call") => Len(started) = Len(results)
        /\ failures = FailedInOrder(Len(results))

C3_Finished == ValidArgs /\ ~interrupted /\ pc \in {"report", "coverage", "done"}

\* C3 (as amended): in a run that is not interrupted the subprocesses started
\* are exactly the requested sequence (the five in fixed order without
\* arguments, else the named tools in argument order, a tool once for each
\* time it is named), one after the other, whatever the return codes; the
\* failed names are aggregated in run order
C3_RunsRequestedSequence ==
    /\ C3_Sequential
    /\ C3_Finished =>
          /\ StartedNames = Requested
          /\ Len(results) = Len(Requested)

C3_Witness ==
    /\ pc = "done"
    /\ ~interrupted
    /\ testtype_names = <<"jest", "jest">>
    /\ results = <<1, 0>>
    /\ Len(started) = 2

\* C3 (as stated): the same, and each requested tool is started exactly once
C3_EachToolOnce ==
    /\ C3_RunsRequestedSequence
    /\ C3_Finished =>
          \A n \in SeqToSet(Requested) :
              Cardinality({i \in 1..Len(started) : started[i].name = n}) = 1

\* the report of lines 201-210 is in the output: every buffered output under
\* the name of its tool, and the line of the failing names
C4_Reported ==
    /\ \A i \in 1..Len(failure_outputs) :
          \E k \in 2..Len(printed) :
              /\ printed[k] = Line("stdout.buffer.write", <<failure_outputs[i]>>, <<>>)
              /\ printed[k-1] = Line("Output from", <<FailedInOrder(Len(results))[i]>>, <<>>)
    /\ AnyFailed =>
          \E k \in 1..Len(printed) :
              printed[k] = Line("Failing tests", FailedInOrder(Len(results)), <<>>)

C4_AtExit ==
    /\ (interrupted /\ pc = "done") =>
          /\ exit_status # None
          /\ exit_status # Some(0)
          /\ C4_Reported
    \* until then the command can always take its next reporting step
    /\ (interrupted /\ pc # "done") => ENABLED (Report \/ Coverage)

\* C4: after a KeyboardInterrupt during the tool loop no further subprocess
\* is started, the report of the failures so far is printed, and the process
\* ends with a non-zero exit status
C4_InterruptAborts ==
    /\ [][interrupted => started' = started]_vars
    /\ [][(~interrupted /\ interrupted') => started' = started]_vars
    /\ []C4_AtExit

C4_Witness ==
    /\ interrupted
    /\ pc = "done"
    /\ ~is_verbose
    /\ testtype_names = <<>>
    /\ results = <<0, 1>>
    /\ Len(started) = 3

\* C5: a coverage.xml that cannot be read is no coverage data: a run that
\* includes py.test still ends without an exception, its exit status decided
\* by the subprocess failures and the interruption alone
C5_CoverageFailureSilent ==
    (/\ pc = "done"
     /\ ValidArgs
     /\ "py.test" \in SeqToSet(Requested)
     /\ (coverage_before = None \/ coverage_after = None))
    => (raised = "none" /\ exit_status = ExpectedExit)

(***************************************************************************)
(* Properties of the price-list admin.                                     *)
(***************************************************************************)
\* the fields of the change form and of its inline that can be edited
AdminEditable(p) ==
    SeqToSet(Admin_fields) \ SeqToSet(Admin_get_readonly_fields(Some(p)))
InlineEditable(p) ==
    SeqToSet(Inline_fields) \ SeqToSet(Inline_get_readonly_fields(Some(p)))

\* the fields outside the fixed base sets of read-only fields
AdminBaseEditable ==
    {"contract_number", "vendor_name", "is_small_business", "contractor_site",
     "contract_start", "contract_end"}
InlineBaseEditable ==
    {"labor_category", "education_level", "min_years_experience",
     "base_year_rate", "sin", "is_muted"}

LastIs(name) == last_action # None /\ last_action[1].name = name
LastQueryset == last_action[1].queryset

\* C6: the change form and its inline are all read-only exactly when the
\* price list is APPROVED; with any other status only the base set is
\* read-only, so an unapproved price list is editable again
C6_ReadOnlyOnceApproved ==
    \A p \in PriceLists :
        /\ status[p] \in {"NEW", "APPROVED", "REJECTED", "UNAPPROVED"}
        /\ (status[p] = "APPROVED") =>
              (AdminEditable(p) = {} /\ InlineEditable(p) = {})
        /\ (status[p] # "APPROVED") =>
              (AdminEditable(p) = AdminBaseEditable
                  /\ InlineEditable(p) = InlineBaseEditable)
        /\ (LastIs("unapprove") /\ p \in LastQueryset /\ prev_status[p] = "APPROVED")
              => (AdminEditable(p) = AdminBaseEditable
                    /\ InlineEditable(p) = InlineBaseEditable)

C6_Witness ==
    /\ LastIs("unapprove")
    /\ LastQueryset = {1}
    /\ prev_status[1] = "APPROVED"
    /\ status[1] = "UNAPPROVED"
    /\ status[2] = "APPROVED"
    /\ status[3] = "REJECTED"

\* the price lists an action has to transition, and what it does with them
Eligible(name, p) ==
    IF name = "approve" THEN prev_status[p] # "APPROVED"
    ELSE IF name = "unapprove" THEN prev_status[p] = "APPROVED"
    ELSE prev_status[p] = "NEW"
Target(name) ==
    IF name = "approve" THEN "APPROVED"
    ELSE IF name = "unapprove" THEN "UNAPPROVED"
    ELSE "REJECTED"
Mail(name) ==
    IF name = "approve" THEN "approved"
    ELSE IF name = "unapprove" THEN "unapproved"
    ELSE "rejected"
MailsTo(p) == {i \in 1..Len(emails_sent) : emails_sent[i].to = p}

\* C7: an action transitions exactly the eligible price lists of its
\* selection, sends one matching e-mail for each of them and none for any
\* other, and reports their number
C7_BulkActions ==
    last_action # None =>
        LET name == last_action[1].name
            moved == {p \in LastQueryset : Eligible(name, p)}
        IN  /\ \A p \in PriceLists :
                  IF p \in moved
                  THEN /\ status[p] = Target(name)
                       /\ Cardinality(MailsTo(p)) = 1
                       /\ \A i \in MailsTo(p) : emails_sent[i].kind = Mail(name)
                  ELSE /\ status[p] = prev_status[p]
                       /\ MailsTo(p) = {}
            /\ flash # None
            /\ flash[1].count = Cardinality(moved)

C7_Witness ==
    /\ LastIs("approve")
    /\ LastQueryset = {1, 2}
    /\ prev_status[1] = "APPROVED"
    /\ prev_status[2] = "REJECTED"
    /\ prev_status[3] = "NEW"
    /\ status[3] = "NEW"
    /\ Len(emails_sent) = 1

\* the views a price list is listed in
ViewsOf(p) ==
    (IF p \in ApprovedPriceListAdmin_get_queryset THEN {"APPROVED"} ELSE {})
    \cup (IF p \in NewPriceListAdmin_get_queryset THEN {"NEW"} ELSE {})
    \cup (IF p \in RejectedPriceListAdmin_get_queryset THEN {"REJECTED"} ELSE {})
    \cup (IF p \in UnapprovedPriceListAdmin_get_queryset THEN {"UNAPPROVED"} ELSE {})

\* C8: every price list is listed in exactly one of the four views, the one
\* of its status, and the row admin lists exactly the rows of the price
\* lists that are not APPROVED
C8_ViewsPartition ==
    /\ \A p \in PriceLists : ViewsOf(p) = {status[p]}
    /\ \A r \in Rows :
          (r \in SubmittedPriceListRowAdmin_get_queryset)
              <=> (status[RowPriceList(r)] \in {"NEW", "REJECTED", "UNAPPROVED"})

C8_Witness ==
    /\ status[1] = "APPROVED"
    /\ status[2] = "UNAPPROVED"
    /\ status[3] = "REJECTED"
    /\ LastIs("reject")

(***************************************************************************)
(* Properties of the user forms.                                           *)
(***************************************************************************)
\* the posted e-mail is the e-mail of a user other than the form's instance
DuplicateEmail(f) ==
    \E k \in 1..Len(prev_users) :
        prev_users[k].email = f.email /\ Some(k) # f.instance

Validated(f) == f.state \in {"invalid", "valid", "raised", "saved"}

\* C9: a form whose e-mail is that of a different user is rejected with a
\* validation error and changes no user; a change form that keeps the
\* user's own e-mail is accepted; no two users ever share an e-mail
C9_UniqueEmail ==
    /\ \A k1, k2 \in 1..Len(users) :
          users[k1].email = users[k2].email => k1 = k2
    /\ form # None =>
          LET f == form[1] IN
          /\ f.state # "saved" => users = prev_users
          /\ Validated(f) =>
                /\ DuplicateEmail(f) <=> (f.state = "invalid" /\ "email" \in f.errors)
                /\ (f.kind = "change" /\ f.email = prev_users[f.instance[1]].email)
                      => f.state \in {"valid", "saved"}
          /\ f.state = "saved" =>
                /\ ~DuplicateEmail(f)
                /\ \E k \in 1..Len(users) : users[k].email = f.email

C9_Witness ==
    /\ form # None
    /\ form[1].kind = "change"
    /\ form[1].state = "invalid"
    /\ form[1].instance = Some(2)
    /\ Len(users) = 2
    /\ form[1].email = users[1].email

\* the base name of each e-mail of Emails: the slug of the part before '@',
\* cut to 15 characters
ExpectedBasename(email) ==
    IF email = <<"a", "b", "@", "x">> THEN <<"a", "b">>
    ELSE IF email = <<"A", ".", "B", "@", "y">> THEN <<"a", "b">>
    ELSE IF email = <<"a", "b", "1", "@", "x">> THEN <<"a", "b", "1">>
    ELSE IF email = <<"a", "-", "-", "b", "@", "x">> THEN <<"a", "-", "b">>
    ELSE <<"a", "b", "c", "d", "e", "f", "g", "h", "i", "j", "k", "l", "m", "n", "o">>

Taken == {users[k].username : k \in 1..Len(users)}
\* the candidates of a call, attempt 0 being the bare base name
Candidate(base, i) == IF i = 0 THEN base ELSE base \o Str(i)

\* C10: generate_username returns an unused username, the base name if it is
\* unused and else the base name with the smallest i in 1..max_attempts-1
\* that makes it unused; it raises exactly when all of these are taken
C10_GenerateUsername ==
    gen_call # None =>
        LET c == gen_call[1]
            base == ExpectedBasename(c.email)
            free == {i \in 0..(c.max_attempts - 1) : Candidate(base, i) \notin Taken}
        IN  IF free = {}
            THEN c.result = None
            ELSE /\ c.result # None
                 /\ c.result[1] \notin Taken
                 /\ \E i \in free :
                       /\ \A j \in free : i <= j
                       /\ c.result[1] = Candidate(base, i)

C10_Witness ==
    /\ gen_call # None
    /\ gen_call[1].max_attempts = 3
    /\ gen_call[1].email = <<"A", ".", "B", "@", "y">>
    /\ gen_call[1].result = Some(<<"a", "b", "2">>)
    /\ Len(users) = 2

====

